---- MODULE Spec2Model ----
(***************************************************************************)
(* A model of the CrownstoneSSE session of src/src/CrownstoneSSE.ts: one   *)
(* instance of the class, the EventSource objects it constructs, the timer *)
(* primitive's pending timers, the login requests in flight and the calls  *)
(* made on the caller's event callback.                                    *)
(*                                                                         *)
(* Every method of the class is an operator from a world record (the       *)
(* instance's fields plus the collaborators' state) to the world record    *)
(* after the call, so that a handler which calls other methods is the      *)
(* composition of their operators. JavaScript runs each handler to         *)
(* completion: one action of the model is one handler, from its first      *)
(* statement to its return (or to the first await of a promise chain).     *)
(*                                                                         *)
(* The collaborators behave as their contracts say: an EventSource         *)
(* dispatches an event only to a listener that is attached, open once and  *)
(* messages only while it is open, and nothing after close(); a one-shot   *)
(* timer fires at most once and a cleared timer never; a login request is  *)
(* answered once, in any order with the others. The variable calls holds   *)
(* what the handler that ran last called on the collaborators, in order,   *)
(* and lastOp which handler that was: the claims about what one handler    *)
(* does are stated on these two.                                           *)
(***************************************************************************)
EXTENDS Integers, Sequences, FiniteSets, TLC

\* ------------------------------------------------------------- bounds
MaxSources  == 2    \* EventSource objects that can still act at one time
MaxInFlight == 1    \* login requests and post-login delays in flight at one time

\* ------------------------------------------------------------- values
NULL  == "null"
UNDEF == "undefined"

Tokens       == {"t1", "t2"}
Callbacks    == {"cb1", "cb2"}
Emails       == {"a@b.com"}
Passwords    == {"pw"}
HubIds       == {"hub1"}
HubTokens    == {"tok1"}

\* options.sha1: a deterministic one-way hash of the password
sha1(password) == <<"sha1", password>>

\* The data field of a message event, as received on the wire.
PingData    == ""
DataJson    == "{type:'dataChange'}"
ExpiredJson == "{type:'system',code:401,subType:'TOKEN_EXPIRED'}"
InvalidJson == "{type:'system',code:401,subType:'INVALID_ACCESS_TOKEN'}"
NotJson     == "<html>bad gateway"
Payloads    == {PingData, DataJson, ExpiredJson, InvalidJson, NotJson}

\* What JSON.parse throws on a payload that is no JSON.
ParseError == [type |-> "SyntaxError", code |-> UNDEF, subType |-> UNDEF]

\* JSON.parse of a payload: the parsed event, or ParseError when it throws.
JSONparse(data) ==
  CASE data = DataJson    -> [type |-> "dataChange", code |-> UNDEF, subType |-> UNDEF]
    [] data = ExpiredJson -> [type |-> "system", code |-> "401", subType |-> "TOKEN_EXPIRED"]
    [] data = InvalidJson -> [type |-> "system", code |-> "401", subType |-> "INVALID_ACCESS_TOKEN"]
    [] OTHER              -> ParseError

\* The terminal event of retryWithNewAccessToken.
CouldNotRefresh ==
  [type |-> "system", code |-> "401", subType |-> "COULD_NOT_REFRESH_TOKEN"]

\* The conditions of the two ifs of the message listener.
IsTokenExpired(message) ==
  message.type = "system" /\ message.code = "401" /\ message.subType = "TOKEN_EXPIRED"

\* The second if with the subType of the first.
IsInvalidToken_copied(message) == IsTokenExpired(message)

IsInvalidToken(message) ==
  message.type = "system" /\ message.code = "401" /\ message.subType = "INVALID_ACCESS_TOKEN"

\* Login responses: the parsed JSON of the response, or a failed request.
NetworkFailure == [kind |-> "rejected", id |-> UNDEF, statusCode |-> UNDEF, code |-> UNDEF]

Responses ==
  {[kind |-> "json", id |-> t, statusCode |-> UNDEF, code |-> UNDEF] : t \in Tokens}
  \cup {[kind |-> "json", id |-> UNDEF, statusCode |-> "401", code |-> "LOGIN_FAILED"],
        [kind |-> "json", id |-> UNDEF, statusCode |-> "500", code |-> UNDEF],
        [kind |-> "json", id |-> UNDEF, statusCode |-> UNDEF, code |-> "LOGIN_FAILED_EMAIL_NOT_VERIFIED"],
        NetworkFailure}

\* EventSource.readyState
CONNECTING == 0
OPEN       == 1
CLOSED     == 2

AllListeners == {"open", "message", "error"}

\* A null connection handle and a null timer handle.
NoSource == 0
NoTimer  == 0

\* A null credential record; an absent branch of the record is <<>>.
NoLoginData == [user |-> <<>>, hub |-> <<>>]

\* ------------------------------------------------------------- state
VARIABLES
  autoreconnect,          \* this.autoreconnect
  requireAuthentication,  \* this.requireAuthentication
  eventSource,            \* this.eventSource: NoSource or the index of a source
  accessToken,            \* this.accessToken
  eventCallback,          \* this.eventCallback
  checkerInterval,        \* this.checkerInterval: NoTimer or the id of a pending timer
  reconnectTimeout,       \* this.reconnectTimeout
  pingTimeout,            \* this.pingTimeout
  cachedLoginData,        \* this.cachedLoginData
  listeners,              \* this.listeners: the start call whose closures it holds
  sources,                \* the EventSource objects that can still act, by index
  timers,                 \* the timer primitive: the pending timers
  fetches,                \* login requests in flight
  calls,                  \* the calls the last handler made on its collaborators, in order
  stopped,                \* history: stop() was called and start() not since
  gaveUp,                 \* history: a terminal event was delivered, no caller start since
  succeeded,              \* history, kept under SpecLogins only: the credentials of the
                          \* login call that last succeeded, while the access token is
                          \* the one that call installed
  lastOp                  \* history: the handler that ran last and how it ended

vars == <<autoreconnect, requireAuthentication, eventSource, accessToken,
          eventCallback, checkerInterval, reconnectTimeout, pingTimeout,
          cachedLoginData, listeners, sources, timers, fetches, calls,
          stopped, gaveUp, succeeded, lastOp>>

\* The instance and its collaborators as one record, when a handler begins:
\* it has called nothing yet.
World ==
  [autoreconnect |-> autoreconnect, requireAuthentication |-> requireAuthentication,
   eventSource |-> eventSource, accessToken |-> accessToken,
   eventCallback |-> eventCallback, checkerInterval |-> checkerInterval,
   reconnectTimeout |-> reconnectTimeout, pingTimeout |-> pingTimeout,
   cachedLoginData |-> cachedLoginData, listeners |-> listeners,
   sources |-> sources, timers |-> timers, fetches |-> fetches, calls |-> <<>>]

\* An EventSource that is closed, has no listener attached and is not the
\* connection handle dispatches nothing and is referenced by nothing: the
\* model forgets it.
Inert(w, e) ==
  e # w.eventSource /\ w.sources[e].readyState = CLOSED /\ w.sources[e].on = {}

Collect(w) ==
  [e \in {x \in DOMAIN w.sources : ~Inert(w, x)} |-> w.sources[e]]

\* Timer ids are never reused, so clearing the handle of a timer that has
\* fired or was cleared does nothing, as clearing null does: the model keeps
\* one value, NoTimer, for a handle field that holds either.
Handle(w, kind, h) ==
  IF \E t \in w.timers : t.kind = kind /\ t.id = h THEN h ELSE NoTimer

\* The next state's fields are those of w.
Becomes(w) ==
  /\ autoreconnect' = w.autoreconnect
  /\ requireAuthentication' = w.requireAuthentication
  /\ eventSource' = w.eventSource
  /\ accessToken' = w.accessToken
  /\ eventCallback' = w.eventCallback
  /\ checkerInterval' = Handle(w, "checker", w.checkerInterval)
  /\ reconnectTimeout' = Handle(w, "reconnect", w.reconnectTimeout)
  /\ pingTimeout' = Handle(w, "ping", w.pingTimeout)
  /\ cachedLoginData' = w.cachedLoginData
  /\ listeners' = w.listeners
  /\ sources' = Collect(w)
  /\ timers' = w.timers
  /\ fetches' = w.fetches
  /\ calls' = w.calls

\* ------------------------------------------------------------- timers
\* A pending timer is one of four kinds, by the call that armed it: "ping"
\* (line 191), "checker" (line 232), "reconnect" (line 267), "delay" (line
\* 285). Each handle field only ever holds timers of one kind, so a timer is
\* identified by its kind and an id within the kind.

\* The id of a new timer of a kind: the least one no pending timer of the
\* kind has.
FreshTimer(w, kind) ==
  LET held == {t.id : t \in {x \in w.timers : x.kind = kind}}
  IN CHOOSE i \in 1..(Cardinality(held) + 1) :
       i \notin held /\ \A j \in 1..(i - 1) : j \in held

\* clearTimeout / clearInterval of a handle field: the timer it holds is no
\* longer pending.
clear_Timer(w, kind, handle) ==
  [w EXCEPT !.timers = {t \in @ : ~(t.kind = kind /\ t.id = handle)}]

\* setTimeout / setInterval: a pending timer. A watchdog or reconnect timer
\* is tagged with the connection handle of the moment it was armed.
set_Timer(w, id, kind) ==
  [w EXCEPT !.timers = @ \cup {[id |-> id, kind |-> kind,
                                 src |-> IF kind = "delay" THEN NoSource ELSE w.eventSource]}]

Pending(kind) == {t \in timers : t.kind = kind}

\* ------------------------------------------------------------- methods
\* One more call on a collaborator: this.eventCallback(ev), eventSource.close(),
\* new EventSource(url), fetch(...), resolve() of a start call's promise, or a
\* promise rejected with no handler.
called(w, call, arg) == [w EXCEPT !.calls = Append(@, [call |-> call, arg |-> arg])]

\* this.eventCallback(ev)
deliver(w, ev) == called(w, "callback", <<w.eventCallback, ev>>)

\* _clearPendingActions without its clear_Interval.
_clearPendingActions_keepsInterval(w) ==
  clear_Timer(clear_Timer(w, "reconnect", w.reconnectTimeout), "ping", w.pingTimeout)

\* _clearPendingActions (lines 199-203)
_clearPendingActions(w) ==
  clear_Timer(
    clear_Timer(
      clear_Timer(w, "checker", w.checkerInterval), "reconnect", w.reconnectTimeout),
    "ping", w.pingTimeout)

\* eventSource.removeEventListener(name, this.listeners[name]): detaches the
\* listener only when the closure passed is the one that was attached.
removeEventListener(w, e, name) ==
  IF w.listeners = e THEN [w EXCEPT !.sources[e].on = @ \ {name}] ELSE w

\* closeEventSource without its eventSource.close(): the listeners are
\* detached and the handle nulled, the transport stays open.
closeEventSource_keepsOpen(w) ==
  LET w1 == _clearPendingActions(w)
      e  == w1.eventSource
  IN IF e # NoSource
       THEN [removeEventListener(
               removeEventListener(
                 removeEventListener(w1, e, "open"), e, "message"), e, "error")
             EXCEPT !.eventSource = NoSource]
       ELSE w1

\* closeEventSource without its _clearPendingActions: the timers of the
\* connection outlive it.
closeEventSource_keepsTimers(w) ==
  LET e == w.eventSource
  IN IF e # NoSource
       THEN LET w2 == removeEventListener(
                        removeEventListener(
                          removeEventListener(w, e, "open"), e, "message"), e, "error")
            IN [called(w2, "close", e) EXCEPT !.sources[e].readyState = CLOSED,
                                              !.eventSource = NoSource]
       ELSE w

\* closeEventSource without nulling the handle.
closeEventSource_keepsHandle(w) ==
  LET w1 == _clearPendingActions(w)
      e  == w1.eventSource
  IN IF e # NoSource
       THEN LET w2 == removeEventListener(
                        removeEventListener(
                          removeEventListener(w1, e, "open"), e, "message"), e, "error")
            IN [called(w2, "close", e) EXCEPT !.sources[e].readyState = CLOSED]
       ELSE w1

\* closeEventSource (lines 173-182)
closeEventSource(w) ==
  LET w1 == _clearPendingActions(w)
      e  == w1.eventSource
  IN IF e # NoSource
       THEN LET w2 == removeEventListener(
                        removeEventListener(
                          removeEventListener(w1, e, "open"), e, "message"), e, "error")
            IN [called(w2, "close", e) EXCEPT !.sources[e].readyState = CLOSED,
                                              !.eventSource = NoSource]
       ELSE w1

\* stop (lines 168-171)
stop(w) == closeEventSource([w EXCEPT !.autoreconnect = FALSE])

\* setAccessToken (lines 163-165)
setAccessToken(w, token) == [w EXCEPT !.accessToken = token]

\* _messageReceived arming the next deadline without clearing the last.
_messageReceived_keepsLast(w) ==
  LET id == FreshTimer(w, "ping")
  IN [set_Timer(w, id, "ping") EXCEPT !.pingTimeout = id]

\* _messageReceived (lines 189-196)
_messageReceived(w) ==
  LET w1 == clear_Timer(w, "ping", w.pingTimeout)
      id == FreshTimer(w1, "ping")
  IN [set_Timer(w1, id, "ping") EXCEPT !.pingTimeout = id]

\* The guard of start (line 207).
StartThrows(w) == w.accessToken = NULL /\ w.requireAuthentication

\* The url without its query string, whatever requireAuthentication is.
Url_noToken(w) == <<>>

\* The url of line 220-223: the access token it carries, if any.
Url(w) == IF w.requireAuthentication THEN <<"accessToken", w.accessToken>> ELSE <<>>

\* The index of a new EventSource: the least one no remembered source has.
FreshSource(w) ==
  CHOOSE k \in 1..(Cardinality(DOMAIN w.sources) + 1) :
    k \notin DOMAIN w.sources /\ \A j \in 1..(k - 1) : j \in DOMAIN w.sources

\* start after its guard with resolve() called outside the open listener:
\* the promise is settled as soon as the source is constructed.
startBody_resolvesAtOnce(w, cb) ==
  LET w1 == [w EXCEPT !.eventCallback = cb]
      w2 == _clearPendingActions(w1)
      w3 == IF w2.eventSource # NoSource THEN closeEventSource(w2) ELSE w2
      k  == FreshSource(w3)
      es == [url |-> Url(w3), readyState |-> CONNECTING, on |-> AllListeners,
             promise |-> "resolved"]
  IN [called(called(w3, "EventSource", <<k, es.url>>), "resolve", k)
        EXCEPT !.sources = [e \in DOMAIN @ \cup {k} |-> IF e = k THEN es ELSE @[e]],
               !.eventSource = k,
               !.listeners = k]

\* start after its guard (lines 211-274): a new EventSource with the three
\* listeners of this call attached.
startBody(w, cb) ==
  LET w1 == [w EXCEPT !.eventCallback = cb]
      w2 == _clearPendingActions(w1)
      w3 == IF w2.eventSource # NoSource THEN closeEventSource(w2) ELSE w2
      k  == FreshSource(w3)
      es == [url |-> Url(w3), readyState |-> CONNECTING, on |-> AllListeners,
             promise |-> "pending"]
  IN [called(w3, "EventSource", <<k, es.url>>)
        EXCEPT !.sources = [e \in DOMAIN @ \cup {k} |-> IF e = k THEN es ELSE @[e]],
               !.eventSource = k,
               !.listeners = k]

\* start with its guard after the callback is stored and the timers cleared.
start_lateGuard(w, cb) ==
  IF StartThrows(w) THEN _clearPendingActions([w EXCEPT !.eventCallback = cb])
  ELSE startBody(w, cb)

\* start (lines 206-275); a throw leaves the world as it was.
start(w, cb) == IF StartThrows(w) THEN w ELSE startBody(w, cb)

\* fetch(...) of a login flow: one more request in flight. origin is who
\* consumes the promise: the caller, or the chain of retryWithNewAccessToken.
fetch(w, flow, cred, origin) ==
  LET held == {f.id : f \in w.fetches}
      id   == CHOOSE i \in 1..(Cardinality(held) + 1) :
                i \notin held /\ \A j \in 1..(i - 1) : j \in held
      req  == [id |-> id, flow |-> flow, cred |-> cred, origin |-> origin]
  IN [called(w, "fetch", req) EXCEPT !.fetches = @ \cup {req}]

\* loginHashed that issues the request without recording the credentials.
loginHashed_keepsRecord(w, email, sha1passwordHash, origin) ==
  fetch(w, "user", <<email, sha1passwordHash>>, origin)

\* loginHashed up to its fetch (lines 89-94)
loginHashed(w, email, sha1passwordHash, origin) ==
  fetch([w EXCEPT !.cachedLoginData = [user |-> <<email, sha1passwordHash>>, hub |-> <<>>]],
        "user", <<email, sha1passwordHash>>, origin)

\* login (lines 85-87)
login(w, email, password, origin) == loginHashed(w, email, sha1(password), origin)

\* hubLogin up to its fetch (lines 122-128)
hubLogin(w, hubId, hubToken, origin) ==
  fetch([w EXCEPT !.cachedLoginData = [hub |-> <<hubId, hubToken>>, user |-> <<>>]],
        "hub", <<hubId, hubToken>>, origin)

\* The then handler assigning result.id before it looks at result.error.
loginHashedThen_assignsFirst(w, r) == [w EXCEPT !.accessToken = r.id]

\* The second then handler of loginHashed on the parsed response r (lines
\* 98-104): it throws result.error before the assignment, or assigns result.id.
loginHashedThen(w, r) ==
  IF r.statusCode = "401" THEN w ELSE [w EXCEPT !.accessToken = r.id]

\* The second then handler of hubLogin (lines 132-138).
hubLoginThen(w, r) ==
  IF r.statusCode = "401" THEN w ELSE [w EXCEPT !.accessToken = r.id]

\* A login call fails on this response: the request or its json() failed, or
\* the then handler threw (lines 100, 134); the catch handlers (lines 105-119,
\* 139-149) re-throw whatever they catch.
LoginRejects(r) == r.kind = "rejected" \/ r.statusCode = "401"

\* retryLogin with the flows crossed: each branch of the record replayed
\* through the other flow.
retryLogin_crossed(w) ==
  IF w.cachedLoginData.hub # <<>>
    THEN loginHashed(w, w.cachedLoginData.hub[1], w.cachedLoginData.hub[2], "retry")
  ELSE IF w.cachedLoginData.user # <<>>
    THEN hubLogin(w, w.cachedLoginData.user[1], w.cachedLoginData.user[2], "retry")
  ELSE called(w, "unhandledRejection", "NO_CREDENTIALS")

\* retryLogin (lines 152-160)
retryLogin(w) ==
  IF w.cachedLoginData.hub # <<>>
    THEN hubLogin(w, w.cachedLoginData.hub[1], w.cachedLoginData.hub[2], "retry")
  ELSE IF w.cachedLoginData.user # <<>>
    THEN loginHashed(w, w.cachedLoginData.user[1], w.cachedLoginData.user[2], "retry")
  ELSE called(w, "unhandledRejection", "NO_CREDENTIALS")

\* retryWithNewAccessToken up to the first await (lines 277-316). retryLogin
\* is async: it never throws into the try block, so the catch is dead code.
retryWithNewAccessToken(w) ==
  LET w1 == closeEventSource(w)
  IN IF w1.autoreconnect /\ w1.cachedLoginData # NoLoginData
       THEN retryLogin(w1)
       ELSE deliver(w1, CouldNotRefresh)

\* The continuation of a login request when its response r arrives: the
\* then/catch handlers of the flow, and for a request of retryLogin the
\* first then handler of retryWithNewAccessToken (lines 283-286), which arms
\* the 2 second delay without keeping its handle; a rejection skips all the
\* then handlers and nobody catches it.
loginResponse(w, f, r) ==
  LET w0 == [w EXCEPT !.fetches = @ \ {f}]
      w1 == IF r.kind = "rejected" THEN w0
            ELSE IF f.flow = "user" THEN loginHashedThen(w0, r)
            ELSE hubLoginThen(w0, r)
  IN IF f.origin # "retry" THEN w1
     ELSE IF LoginRejects(r) THEN called(w1, "unhandledRejection", "login")
     ELSE set_Timer(w1, FreshTimer(w1, "delay"), "delay")

\* listeners.open (lines 227-240)
openListener(w, e) ==
  LET w1 == _messageReceived(w)
      id == FreshTimer(w1, "checker")
  IN [called(set_Timer(w1, id, "checker"), "resolve", e)
        EXCEPT !.checkerInterval = id, !.sources[e].promise = "resolved"]

\* The message listener intercepting the auth-expiry event: recovery without
\* forwarding it.
messageListener_interceptsAuth(w, data) ==
  LET w1 == _messageReceived(w)
  IN IF data = PingData THEN w1
     ELSE LET message == JSONparse(data)
          IN IF message = ParseError THEN w1
             ELSE IF IsTokenExpired(message) \/ IsInvalidToken(message)
               THEN retryWithNewAccessToken(w1)
             ELSE deliver(w1, message)

\* listeners.message (lines 243-259)
messageListener(w, data) ==
  LET w1 == _messageReceived(w)
  IN IF data = PingData THEN w1
     ELSE LET message == JSONparse(data)
          IN IF message = ParseError THEN w1
             ELSE LET w2 == deliver(w1, message)
                      w3 == IF IsTokenExpired(message) THEN retryWithNewAccessToken(w2) ELSE w2
                  IN IF IsInvalidToken(message) THEN retryWithNewAccessToken(w3) ELSE w3

\* The error listener recovering as from an expired token: a re-login
\* instead of the reconnect delay.
errorListener_relogin(w) ==
  retryWithNewAccessToken(
    clear_Timer(clear_Timer(w, "checker", w.checkerInterval), "reconnect", w.reconnectTimeout))

\* The error listener without its set_Timeout: it cleans up and
\* schedules nothing.
errorListener_noReconnect(w) ==
  closeEventSource(
    clear_Timer(clear_Timer(w, "checker", w.checkerInterval), "reconnect", w.reconnectTimeout))

\* listeners.error (lines 261-268)
errorListener(w) ==
  LET w1 == closeEventSource(
              clear_Timer(
                clear_Timer(w, "checker", w.checkerInterval), "reconnect", w.reconnectTimeout))
      id == FreshTimer(w1, "reconnect")
  IN [set_Timer(w1, id, "reconnect") EXCEPT !.reconnectTimeout = id]

\* The callback of the heartbeat timer (lines 191-195), the timer having fired.
pingTimeoutFired(w) ==
  IF w.eventCallback # UNDEF THEN start(w, w.eventCallback) ELSE w

\* The liveness poll reads this.eventSource.readyState: a TypeError on null.
CheckerThrows(w) == w.eventSource = NoSource

\* The callback of the liveness poll (lines 232-237).
checkerFired(w) ==
  IF CheckerThrows(w) THEN w
  ELSE IF w.sources[w.eventSource].readyState = CLOSED THEN start(w, w.eventCallback)
  ELSE w

\* The callback of the reconnect delay (line 267) and the last then handlers
\* of retryWithNewAccessToken after its delay (lines 287-290).
restartFired(w) == start(w, w.eventCallback)

\* A one-shot timer that fires is no longer pending.
fired(w, t) == [w EXCEPT !.timers = @ \ {t}]

\* ------------------------------------------------------------- actions
\* A handler that ran: its name, who invoked it (the caller, the transport,
\* the timer primitive, or the promise of a caller's or a retry's login
\* request), its argument (a string), how it ended, and the source it was
\* dispatched on (NoSource when it is no event of a source).
Op(op, by, arg, res, src) == [op |-> op, by |-> by, arg |-> arg, res |-> res, src |-> src]

\* The instance after its constructor (lines 53-83), for each choice of the
\* two options.
Init ==
  /\ autoreconnect \in BOOLEAN
  /\ requireAuthentication \in BOOLEAN
  /\ eventSource = NoSource
  /\ accessToken = NULL
  /\ eventCallback = UNDEF
  /\ checkerInterval = NoTimer
  /\ reconnectTimeout = NoTimer
  /\ pingTimeout = NoTimer
  /\ cachedLoginData = NoLoginData
  /\ listeners = NoSource
  /\ sources = <<>>
  /\ timers = {}
  /\ fetches = {}
  /\ calls = <<>>
  /\ stopped = FALSE
  /\ gaveUp = FALSE
  /\ succeeded = NoLoginData
  /\ lastOp = Op("constructor", "caller", "", "ok", NoSource)

\* The calls of one kind among seq, and the terminal events delivered among them.
Calls(seq, call) == SelectSeq(seq, LAMBDA c : c.call = call)

Terminals(seq) == SelectSeq(Calls(seq, "callback"), LAMBDA c : c.arg[2] = CouldNotRefresh)

\* The credential record a login request was issued with.
Attempted(f) ==
  IF f.flow = "user" THEN [user |-> f.cred, hub |-> <<>>] ELSE [hub |-> f.cred, user |-> <<>>]

\* The history after handler op took the world to w.
History(w, op) ==
  /\ lastOp' = op
  /\ gaveUp' = (gaveUp \/ Terminals(w.calls) # <<>>)

\* The bounds: on the sources remembered, and on the recoveries and logins in flight.
CanStart == Cardinality(DOMAIN sources) < MaxSources \/ eventSource # NoSource

CanLogin == Cardinality(fetches) + Cardinality({t \in timers : t.kind = "delay"}) < MaxInFlight

\* The caller calls start(cb).
Start(cb) ==
  /\ CanStart
  /\ Becomes(start(World, cb))
  /\ lastOp' = Op("start", "caller", cb, IF StartThrows(World) THEN "throw" ELSE "ok", NoSource)
  /\ stopped' = (stopped /\ StartThrows(World))
  /\ gaveUp' = (gaveUp /\ StartThrows(World))
  /\ UNCHANGED succeeded

\* The caller calls stop().
Stop ==
  /\ Becomes(stop(World))
  /\ History(stop(World), Op("stop", "caller", "", "ok", NoSource))
  /\ stopped' = TRUE
  /\ UNCHANGED succeeded

\* The caller calls closeEventSource().
CloseEventSource ==
  /\ Becomes(closeEventSource(World))
  /\ History(closeEventSource(World), Op("closeEventSource", "caller", "", "ok", NoSource))
  /\ UNCHANGED <<stopped, succeeded>>

\* The caller calls setAccessToken(token).
SetAccessToken(token) ==
  /\ Becomes(setAccessToken(World, token))
  /\ History(setAccessToken(World, token), Op("setAccessToken", "caller", token, "ok", NoSource))
  /\ succeeded' = NoLoginData
  /\ UNCHANGED stopped

\* The caller calls login(email, password).
Login(email, password) ==
  /\ CanLogin
  /\ Becomes(login(World, email, password, "caller"))
  /\ History(login(World, email, password, "caller"), Op("login", "caller", email, "pending", NoSource))
  /\ UNCHANGED <<stopped, succeeded>>

\* The caller calls hubLogin(hubId, hubToken).
HubLogin(hubId, hubToken) ==
  /\ CanLogin
  /\ Becomes(hubLogin(World, hubId, hubToken, "caller"))
  /\ History(hubLogin(World, hubId, hubToken, "caller"), Op("hubLogin", "caller", hubId, "pending", NoSource))
  /\ UNCHANGED <<stopped, succeeded>>

\* The response r of login request f arrives.
LoginResponse(f, r) ==
  /\ Becomes(loginResponse(World, f, r))
  /\ History(loginResponse(World, f, r),
             Op(IF f.flow = "user" THEN "loginHashedResponse" ELSE "hubLoginResponse",
                f.origin, r.statusCode,
                IF LoginRejects(r) THEN "rejected" ELSE "resolved", NoSource))
  /\ UNCHANGED <<stopped, succeeded>>

\* The transport of source e connects: readyState becomes OPEN and the open
\* event is dispatched to the listener attached, if any.
Open(e) ==
  /\ sources[e].readyState = CONNECTING
  /\ LET w == [World EXCEPT !.sources[e].readyState = OPEN]
         v == IF "open" \in sources[e].on THEN openListener(w, e) ELSE w
     IN Becomes(v) /\ History(v, Op("open", "transport", "", "ok", e))
  /\ UNCHANGED <<stopped, succeeded>>

\* A message event with this data field is dispatched on the open source e.
Message(e, data) ==
  /\ sources[e].readyState = OPEN
  /\ "message" \in sources[e].on
  /\ (data \in {ExpiredJson, InvalidJson} /\ autoreconnect /\ cachedLoginData # NoLoginData)
       => CanLogin
  /\ Becomes(messageListener(World, data))
  /\ History(messageListener(World, data),
             Op("message", "transport", data,
                IF data # PingData /\ JSONparse(data) = ParseError THEN "throw" ELSE "ok", e))
  /\ UNCHANGED <<stopped, succeeded>>

\* The transport of source e fails: the error event is dispatched.
Error(e) ==
  /\ sources[e].readyState # CLOSED
  /\ "error" \in sources[e].on
  /\ Becomes(errorListener(World))
  /\ History(errorListener(World), Op("error", "transport", "", "ok", e))
  /\ UNCHANGED <<stopped, succeeded>>

\* The transport of source e closes without dispatching any event.
TransportClosed(e) ==
  /\ sources[e].readyState # CLOSED
  /\ Becomes([World EXCEPT !.sources[e].readyState = CLOSED])
  /\ History(World, Op("transportClosed", "transport", "", "ok", e))
  /\ UNCHANGED <<stopped, succeeded>>

\* The heartbeat deadline t fires.
PingTimeoutFires(t) ==
  /\ t.kind = "ping"
  /\ CanStart
  /\ Becomes(pingTimeoutFired(fired(World, t)))
  /\ History(pingTimeoutFired(fired(World, t)), Op("pingTimeout", "timer", "", "ok", NoSource))
  /\ UNCHANGED <<stopped, succeeded>>

\* The liveness poll t fires; an interval stays pending.
CheckerFires(t) ==
  /\ t.kind = "checker"
  /\ CanStart
  /\ Becomes(checkerFired(World))
  /\ History(checkerFired(World),
             Op("checkerInterval", "timer", "",
                IF CheckerThrows(World) THEN "throw" ELSE "ok", NoSource))
  /\ UNCHANGED <<stopped, succeeded>>

\* The reconnect delay t of the error listener fires.
ReconnectFires(t) ==
  /\ t.kind = "reconnect"
  /\ CanStart
  /\ Becomes(restartFired(fired(World, t)))
  /\ History(restartFired(fired(World, t)),
             Op("reconnectTimeout", "timer", "",
                IF StartThrows(World) THEN "throw" ELSE "ok", NoSource))
  /\ UNCHANGED <<stopped, succeeded>>

\* The 2 second delay t after a successful re-login fires.
DelayFires(t) ==
  /\ t.kind = "delay"
  /\ CanStart
  /\ Becomes(restartFired(fired(World, t)))
  /\ History(restartFired(fired(World, t)),
             Op("retryDelay", "timer", "",
                IF StartThrows(World) THEN "throw" ELSE "ok", NoSource))
  /\ UNCHANGED <<stopped, succeeded>>

Next ==
  \/ \E cb \in Callbacks : Start(cb)
  \/ Stop
  \/ CloseEventSource
  \/ \E token \in Tokens : SetAccessToken(token)
  \/ \E email \in Emails, password \in Passwords : Login(email, password)
  \/ \E hubId \in HubIds, hubToken \in HubTokens : HubLogin(hubId, hubToken)
  \/ \E f \in fetches, r \in Responses : LoginResponse(f, r)
  \/ \E e \in DOMAIN sources : Open(e)
  \/ \E e \in DOMAIN sources, data \in Payloads : Message(e, data)
  \/ \E e \in DOMAIN sources : Error(e)
  \/ \E e \in DOMAIN sources : TransportClosed(e)
  \/ \E t \in timers : PingTimeoutFires(t)
  \/ \E t \in timers : CheckerFires(t)
  \/ \E t \in timers : ReconnectFires(t)
  \/ \E t \in timers : DelayFires(t)

Spec == Init /\ [][Next]_vars

\* The response r of login request f arrives, and the history of the login
\* calls is kept: a success response (one with an id) makes the credentials
\* of the request the ones that last succeeded; a failed call leaves the
\* token and the history as they were; a call that overwrites the token
\* with no id, as setAccessToken with the caller's, ends the history.
LoginResponseRecorded(f, r) ==
  /\ Becomes(loginResponse(World, f, r))
  /\ History(loginResponse(World, f, r),
             Op(IF f.flow = "user" THEN "loginHashedResponse" ELSE "hubLoginResponse",
                f.origin, r.statusCode,
                IF LoginRejects(r) THEN "rejected" ELSE "resolved", NoSource))
  /\ succeeded' = IF r.id \in Tokens THEN Attempted(f)
                  ELSE IF LoginRejects(r) THEN succeeded
                  ELSE NoLoginData
  /\ UNCHANGED stopped

NextLogins ==
  \/ \E cb \in Callbacks : Start(cb)
  \/ Stop
  \/ CloseEventSource
  \/ \E token \in Tokens : SetAccessToken(token)
  \/ \E email \in Emails, password \in Passwords : Login(email, password)
  \/ \E hubId \in HubIds, hubToken \in HubTokens : HubLogin(hubId, hubToken)
  \/ \E f \in fetches, r \in Responses : LoginResponseRecorded(f, r)
  \/ \E e \in DOMAIN sources : Open(e)
  \/ \E e \in DOMAIN sources, data \in Payloads : Message(e, data)
  \/ \E e \in DOMAIN sources : Error(e)
  \/ \E e \in DOMAIN sources : TransportClosed(e)
  \/ \E t \in timers : PingTimeoutFires(t)
  \/ \E t \in timers : CheckerFires(t)
  \/ \E t \in timers : ReconnectFires(t)
  \/ \E t \in timers : DelayFires(t)

\* The session with a timer primitive that fires: a reconnect delay that
\* stays pending, cleared by nobody, fires in the end (set_Timeout of line 267).
FairSpec == Spec /\ WF_vars(\E t \in timers : ReconnectFires(t))

\* The session with the history of its login calls.
SpecLogins == Init /\ [][NextLogins]_vars

\* ------------------------------------------------------------- claims
Live == {e \in DOMAIN sources : sources[e].readyState # CLOSED}

Delays == {t \in timers : t.kind = "delay"}

RetryFetches == {f \in fetches : f.origin = "retry"}

AuthExpiry == {ExpiredJson, InvalidJson}

IsLoginResponse(op) == op.op \in {"loginHashedResponse", "hubLoginResponse"}

\* The events the last handler forwarded to the callback, the terminal
\* event of a failed recovery apart.
Forwarded == SelectSeq(Calls(calls, "callback"), LAMBDA c : c.arg[2] # CouldNotRefresh)

\* C1: at most one connection is live at any time, and every source other
\* than the one the connection handle refers to is closed with its three
\* listeners detached; no handler constructs more than one source.
C1_AtMostOneLiveConnection ==
  /\ Cardinality(Live) <= 1
  /\ \A e \in DOMAIN sources :
       e # eventSource => sources[e].readyState = CLOSED /\ sources[e].on = {}
  /\ Len(Calls(calls, "EventSource")) <= 1

\* A start that found a connection, closed it and constructed the next one.
C1_Witness ==
  /\ Len(calls) = 2
  /\ calls[1].call = "close"
  /\ calls[2].call = "EventSource"
  /\ eventSource # NoSource

\* C2: once stop() has been called, and until the caller calls start again,
\* no connection exists and no timer of the session is pending.
C2_StopIsFinal == stopped => (eventSource = NoSource /\ timers = {})

\* C3: an auth-expiry event received while auto-reconnect is enabled and a
\* credential record is stored is forwarded to the callback, then the
\* connection is closed, then exactly one login request is issued; a
\* successful response to it arms exactly one delay, and the delay firing
\* constructs exactly one connection.
C3_OneReloginOneRestart ==
  [][/\ (/\ lastOp'.op = "message"
         /\ lastOp'.arg \in AuthExpiry
         /\ autoreconnect
         /\ cachedLoginData # NoLoginData)
        => /\ Len(calls') = 3
           /\ calls'[1] = [call |-> "callback",
                           arg |-> <<eventCallback, JSONparse(lastOp'.arg)>>]
           /\ calls'[2] = [call |-> "close", arg |-> eventSource]
           /\ calls'[3].call = "fetch"
           /\ calls'[3].arg.origin = "retry"
           /\ calls'[3].arg \notin fetches
           /\ fetches' = fetches \cup {calls'[3].arg}
           /\ eventSource' = NoSource
           /\ lastOp'.src = eventSource
     /\ (IsLoginResponse(lastOp') /\ lastOp'.by = "retry" /\ lastOp'.res = "resolved")
        => /\ calls' = <<>>
           /\ Cardinality(Delays') = Cardinality(Delays) + 1
           /\ Cardinality(RetryFetches') = Cardinality(RetryFetches) - 1
           /\ eventSource' = eventSource
     /\ lastOp'.op = "retryDelay"
        => /\ Len(Calls(calls', "EventSource")) = 1
           /\ Calls(calls', "fetch") = <<>>
           /\ Cardinality(Delays') = Cardinality(Delays) - 1
    ]_vars

\* The restart after a successful re-login: the delay fired and start
\* constructed the new connection.
C3_Witness ==
  /\ lastOp.op = "retryDelay"
  /\ Len(Calls(calls, "EventSource")) = 1
  /\ cachedLoginData # NoLoginData

\* C4: an auth-expiry event received while auto-reconnect is disabled or no
\* credential record is stored delivers exactly one terminal event, issues
\* no login request and constructs no connection, and no connection exists
\* afterwards until the caller calls start.
C4_TerminalIsFinal ==
  /\ Terminals(calls) # <<>>
       => /\ Len(Terminals(calls)) = 1
          /\ Calls(calls, "fetch") = <<>>
          /\ Calls(calls, "EventSource") = <<>>
  /\ gaveUp => eventSource = NoSource

\* C5: a failed re-login delivers exactly one terminal event to the
\* callback, constructs no connection and leaves no rejection unhandled.
C5_FailedReloginIsReported ==
  (IsLoginResponse(lastOp) /\ lastOp.by = "retry" /\ lastOp.res = "rejected")
    => /\ Len(Terminals(calls)) = 1
       /\ Calls(calls, "EventSource") = <<>>
       /\ Calls(calls, "unhandledRejection") = <<>>

\* C6: the heartbeat deadline firing closes the connection and constructs
\* exactly one new one, leaving no liveness poll, heartbeat or reconnect
\* timer pending; and a pending liveness poll is always the one armed for
\* the connection the handle refers to.
C6_OneRestartPerStall ==
  /\ lastOp.op = "pingTimeout"
       => /\ Len(Calls(calls, "EventSource")) = 1
          /\ Pending("checker") = {}
          /\ Pending("ping") = {}
          /\ Pending("reconnect") = {}
          /\ Cardinality(Live) <= 1
  /\ \A t \in Pending("checker") : t.src = eventSource /\ eventSource # NoSource

\* The heartbeat deadline fired on an open connection: old one closed, new
\* one constructed.
C6_Witness ==
  /\ lastOp.op = "pingTimeout"
  /\ Len(calls) = 2
  /\ calls[1].call = "close"
  /\ calls[2].call = "EventSource"

\* C7: at most one reconnect attempt is in flight: a pending reconnect
\* delay, a re-login in progress, or the pending delay after a re-login.
C7_OneAttemptInFlight ==
  Cardinality(Pending("reconnect")) + Cardinality(RetryFetches) + Cardinality(Delays) <= 1

\* C8 as stated: every message with a payload is forwarded exactly once.
C8_EveryPayloadForwarded ==
  (lastOp.op = "message" /\ lastOp.arg # PingData) => Len(Forwarded) = 1

\* What the last handler forwarded: a message whose payload parses as JSON
\* exactly once, as parsed, to the stored callback; a message with no payload
\* or a payload that does not parse not at all; any other handler nothing.
\* The message was dispatched on the connection the handle referred to.
ForwardedAsReceived ==
  /\ lastOp.op = "message"
       => /\ Forwarded = IF lastOp.arg = PingData \/ JSONparse(lastOp.arg) = ParseError
                           THEN <<>>
                           ELSE <<[call |-> "callback",
                                   arg |-> <<eventCallback, JSONparse(lastOp.arg)>>]>>
          /\ \/ eventSource = lastOp.src
             \/ \E i \in 1..Len(calls) : calls[i] = [call |-> "close", arg |-> lastOp.src]
  /\ lastOp.op # "message" => Forwarded = <<>>

\* C8 amended: every handler forwards exactly the parsed payload of the
\* message it handles (so once each, in arrival order), nothing for a ping or
\* a payload that does not parse, and only for a message of the connection
\* the handle refers to; and the stored callback is the one given to the
\* most recent start call of the caller that did not throw.
C8_ParsedPayloadForwardedOnce ==
  [][/\ ForwardedAsReceived'
     /\ (lastOp'.op = "start" /\ lastOp'.res = "ok") => eventCallback' = lastOp'.arg
     /\ eventCallback' # eventCallback => lastOp'.op = "start"
    ]_vars

\* A payload forwarded to the callback of the most recent start.
C8_Witness ==
  /\ lastOp.op = "message"
  /\ lastOp.arg = DataJson
  /\ eventCallback = "cb2"
  /\ Len(Forwarded) = 1

\* C9: start called while authentication is required and the access token
\* is null throws and changes nothing: no field of the session, no source,
\* no timer, no request, and no collaborator is called.
C9_StartWithoutTokenChangesNothing ==
  [][(lastOp'.op = "start" /\ accessToken = NULL /\ requireAuthentication)
       => /\ lastOp'.res = "throw"
          /\ calls' = <<>>
          /\ UNCHANGED <<autoreconnect, requireAuthentication, eventSource, accessToken,
                         eventCallback, checkerInterval, reconnectTimeout, pingTimeout,
                         cachedLoginData, listeners, sources, timers, fetches>>
    ]_vars

\* start threw for want of a token, a login request being in flight.
C9_Witness ==
  /\ lastOp.op = "start"
  /\ lastOp.res = "throw"
  /\ accessToken = NULL
  /\ fetches # {}

C11_FailureInstallsNoToken ==
  /\ accessToken \in Tokens \cup {NULL}
  /\ (IsLoginResponse(lastOp) /\ lastOp.res = "resolved") => accessToken \in Tokens
  /\ (IsLoginResponse(lastOp) /\ lastOp.arg # UNDEF) => lastOp.res = "rejected"

\* C12: a login call of the caller stores the credentials it attempts and
\* issues one request with them; the answer to the request, a success or a
\* failure, leaves the record as it is, and so does every other handler:
\* setAccessToken changes the access token only.
C12_RecordIsLastAttempt ==
  [][/\ lastOp'.op \in {"login", "hubLogin"}
        => /\ Len(calls') = 1
           /\ calls'[1].call = "fetch"
           /\ calls'[1].arg.cred[1] = lastOp'.arg
           /\ cachedLoginData' = Attempted(calls'[1].arg)
           /\ fetches' = fetches \cup {calls'[1].arg}
     /\ lastOp'.op \notin {"login", "hubLogin"} => cachedLoginData' = cachedLoginData
     /\ lastOp'.op = "setAccessToken"
        => /\ accessToken' = lastOp'.arg
           /\ UNCHANGED <<autoreconnect, requireAuthentication, eventSource, eventCallback,
                          checkerInterval, reconnectTimeout, pingTimeout, listeners,
                          sources, timers, fetches>>
    ]_vars

\* A user login failed after a hub login: the record holds the user's
\* credentials, those of the failed attempt.
C12_Witness ==
  /\ lastOp.op = "loginHashedResponse"
  /\ lastOp.by = "caller"
  /\ lastOp.res = "rejected"
  /\ cachedLoginData = [user |-> <<"a@b.com", sha1("pw")>>, hub |-> <<>>]
  /\ accessToken \in Tokens

\* The login requests the last handler issued on behalf of the recovery.
Replayed == SelectSeq(Calls(calls, "fetch"), LAMBDA c : c.arg.origin = "retry")

\* C13 as stated: a re-authentication replays the credentials of the login
\* call that last succeeded.
C13_ReplaysLastSucceeded ==
  \A i \in 1..Len(Replayed) :
    succeeded # NoLoginData => Attempted(Replayed[i].arg) = succeeded

\* C13 amended: a re-authentication replays the credential record, which
\* holds the credentials of the most recent login call, whether that call
\* succeeded, failed or is still unanswered: the handler of an auth-expiry
\* event, and no other, issues at most one request for the recovery, with
\* the flow and the credentials of the record, and leaves the record as it is.
C13_ReplaysLastAttempt ==
  [][/\ Len(Replayed') <= 1
     /\ \A i \in 1..Len(Replayed') :
          /\ lastOp'.op = "message"
          /\ lastOp'.arg \in AuthExpiry
          /\ Attempted(Replayed'[i].arg) = cachedLoginData
          /\ cachedLoginData' = cachedLoginData
          /\ Replayed'[i].arg \in fetches' \ fetches
    ]_vars

\* A re-authentication that replays the user credentials of a failed login
\* call while the token of the stream came from a hub login.
C13_Witness ==
  /\ Len(Replayed) = 1
  /\ Replayed[1].arg.flow = "user"
  /\ succeeded = [hub |-> <<"hub1", "tok1">>, user |-> <<>>]

\* The sources the last handler constructed, as <<index, url>>.
Constructed == Calls(calls, "EventSource")

\* C14: when authentication is required, every connection constructed, by a
\* start of the caller or by an internal restart, carries in its url the
\* access token of that moment, which is never null and is the token the
\* session holds afterwards; setAccessToken(t) makes t that token. So the
\* restart after a re-login carries the token the session holds when the
\* delay fires.
C14_OpensWithCurrentToken ==
  [][/\ \A i \in 1..Len(Constructed') :
          /\ accessToken' = accessToken
          /\ requireAuthentication
               => /\ Constructed'[i].arg[2] = <<"accessToken", accessToken>>
                  /\ accessToken # NULL
          /\ sources'[Constructed'[i].arg[1]].url = Constructed'[i].arg[2]
          /\ eventSource' = Constructed'[i].arg[1]
     /\ lastOp'.op = "setAccessToken" => accessToken' = lastOp'.arg
     /\ lastOp'.op \in {"start", "retryDelay", "reconnectTimeout"} /\ lastOp'.res = "ok"
          => Len(Constructed') = 1
    ]_vars

\* The restart after a re-login, authentication being required: the
\* connection carries the token the session holds.
C14_Witness ==
  /\ lastOp.op = "retryDelay"
  /\ requireAuthentication
  /\ eventSource # NoSource
  /\ sources[eventSource].url = <<"accessToken", accessToken>>
  /\ accessToken \in Tokens

\* C15: closeEventSource called in any reachable state leaves the handle
\* null and no heartbeat, liveness-poll or reconnect timer pending, and
\* leaves the access token, the credential record, the callback and the
\* auto-reconnect flag as they were; called with a null handle it calls
\* nothing and touches no source; and called again on its own result it
\* changes nothing and calls nothing more.
C15_CloseIsIdempotent ==
  LET once  == closeEventSource(World)
      twice == closeEventSource(once)
  IN /\ once.eventSource = NoSource
     /\ {t \in once.timers : t.kind \in {"ping", "checker", "reconnect"}} = {}
     /\ once.accessToken = accessToken
     /\ once.cachedLoginData = cachedLoginData
     /\ once.eventCallback = eventCallback
     /\ once.autoreconnect = autoreconnect
     /\ once.fetches = fetches
     /\ eventSource = NoSource => (once.calls = <<>> /\ once.sources = sources)
     /\ eventSource # NoSource
          => /\ once.calls = <<[call |-> "close", arg |-> eventSource]>>
             /\ once.sources[eventSource].readyState = CLOSED
             /\ once.sources[eventSource].on = {}
     /\ twice = once
     /\ lastOp.op = "closeEventSource"
          => /\ eventSource = NoSource
             /\ Pending("ping") \cup Pending("checker") \cup Pending("reconnect") = {}
             /\ Calls(calls, "EventSource") = <<>>
             /\ Calls(calls, "callback") = <<>>

\* closeEventSource was called with no connection: nothing was closed.
C15_Witness ==
  /\ lastOp.op = "closeEventSource"
  /\ calls = <<>>
  /\ accessToken \in Tokens
  /\ cachedLoginData # NoLoginData
  /\ eventCallback # UNDEF

\* The handlers of the plain reconnect: the three triggers and the reconnect
\* delay of the error listener firing.
PlainReconnect == {"error", "pingTimeout", "checkerInterval", "reconnectTimeout"}

\* C16: a transport error, the heartbeat deadline firing, the liveness poll
\* and the reconnect delay firing leave the access token, the credential
\* record and the login requests in flight as they were and issue no login
\* request; the connection each restart constructs carries the same token.
C16_PlainReconnectKeepsToken ==
  [][lastOp'.op \in PlainReconnect
       => /\ accessToken' = accessToken
          /\ cachedLoginData' = cachedLoginData
          /\ fetches' = fetches
          /\ Calls(calls', "fetch") = <<>>
          /\ Calls(calls', "callback") = <<>>
          /\ Delays' = Delays
          /\ \A i \in 1..Len(Constructed') :
               Constructed'[i].arg[2] =
                 IF requireAuthentication THEN <<"accessToken", accessToken>> ELSE <<>>
          /\ (lastOp'.op = "error") => (Constructed' = <<>> /\ Cardinality(Pending("reconnect")') = 1)
          /\ (lastOp'.op \in {"pingTimeout", "reconnectTimeout"}) => Len(Constructed') = 1
          /\ (lastOp'.op = "checkerInterval" /\ eventSource # NoSource)
               => Len(Constructed') = IF sources[eventSource].readyState = CLOSED THEN 1 ELSE 0
    ]_vars

\* The liveness poll found the transport closed and restarted the
\* connection of a session that holds a token and a credential record.
C16_Witness ==
  /\ lastOp.op = "checkerInterval"
  /\ Len(Constructed) = 1
  /\ requireAuthentication
  /\ cachedLoginData # NoLoginData
  /\ autoreconnect

\* The timers of the three handle fields.
Watchdogs == Pending("ping") \cup Pending("checker")

\* At most one timer of each of the three kinds is pending, each is the one
\* its handle field holds, a watchdog was armed for the connection the
\* handle refers to, and a reconnect timer is pending only while there is
\* no connection.
OneTimerPerKind ==
  /\ Cardinality(Pending("ping")) <= 1
  /\ Cardinality(Pending("checker")) <= 1
  /\ Cardinality(Pending("reconnect")) <= 1
  /\ \A t \in Pending("ping") : t.id = pingTimeout
  /\ \A t \in Pending("checker") : t.id = checkerInterval
  /\ \A t \in Pending("reconnect") : t.id = reconnectTimeout
  /\ \A t \in Watchdogs : t.src = eventSource
  /\ \A t \in Pending("reconnect") : t.src = NoSource /\ eventSource = NoSource

\* C17: at most one heartbeat, one liveness-poll and one reconnect timer is
\* pending, and a pending watchdog is one armed for the connection of the
\* handle; a handler that constructs a connection leaves none of the three
\* pending; and a message handled on the connection, with a payload or
\* without, leaves exactly one heartbeat timer pending, unless it closed the
\* connection to recover from an expired token.
C17_OneTimerPerKind ==
  [][/\ OneTimerPerKind'
     /\ Constructed' # <<>>
          => Watchdogs' \cup Pending("reconnect")' = {}
     /\ (lastOp'.op = "message" /\ eventSource' # NoSource)
          => /\ Cardinality(Pending("ping")') = 1
             /\ eventSource' = eventSource
             /\ Pending("checker")' = Pending("checker")
     /\ (lastOp'.op = "message" /\ eventSource' = NoSource)
          => (lastOp'.arg \in AuthExpiry /\ Watchdogs' = {})
     /\ (lastOp'.op \in {"pingTimeout", "checkerInterval"})
          => (lastOp'.res = "ok" /\ \E t \in Watchdogs : t.src = eventSource)
    ]_vars

\* A ping handled on an open connection: one heartbeat timer and the
\* liveness poll are pending, both armed for this connection.
C17_Witness ==
  /\ lastOp.op = "message"
  /\ lastOp.arg = PingData
  /\ Cardinality(Pending("ping")) = 1
  /\ Cardinality(Pending("checker")) = 1
  /\ \A t \in Watchdogs : t.src = eventSource /\ t.src = lastOp.src

\* C18: the error listener closes the connection it was dispatched on and
\* nulls the handle, leaves no watchdog pending and exactly one reconnect
\* timer, and constructs nothing; the reconnect timer firing constructs one
\* connection and leaves the callback as it was; and after a transport error
\* a connection exists again in the end, unless stop() or closeEventSource()
\* was called.
C18_ErrorLeadsToReconnect ==
  /\ [][/\ lastOp'.op = "error"
           => /\ calls' = <<[call |-> "close", arg |-> lastOp'.src]>>
              /\ lastOp'.src = eventSource
              /\ eventSource' = NoSource
              /\ Watchdogs' = {}
              /\ Cardinality(Pending("reconnect")') = 1
              /\ eventCallback' = eventCallback
        /\ lastOp'.op = "reconnectTimeout"
           => /\ lastOp'.res = "ok"
              /\ Len(Constructed') = 1
              /\ eventSource' = Constructed'[1].arg[1]
              /\ sources'[eventSource'].readyState = CONNECTING
              /\ eventCallback' = eventCallback
              /\ Pending("reconnect")' = {}
       ]_vars
  /\ (lastOp.op = "error")
       ~> (eventSource # NoSource \/ lastOp.op \in {"stop", "closeEventSource"})

\* The reconnect delay of a transport error fired and constructed the next
\* connection.
C18_Witness ==
  /\ lastOp.op = "reconnectTimeout"
  /\ eventSource # NoSource
  /\ sources[eventSource].readyState = CONNECTING
  /\ eventCallback \in Callbacks

\* The promises the last handler settled, by the source of the start call.
Resolved == Calls(calls, "resolve")

\* C19: the promise of a start call is resolved only by the open listener
\* dispatched on the source that call constructed, while that source is the
\* connection of the handle and still connecting, and at most once; a source
\* is constructed with its promise pending; the promise of a source that is
\* closed, or closed and forgotten, in a step is not settled by that step,
\* and the promise of a closed source never changes. Nothing rejects a
\* promise.
C19_PromiseSettledByOwnOpen ==
  [][/\ Len(Resolved') <= 1
     /\ \A i \in 1..Len(Resolved') :
          /\ lastOp'.op = "open"
          /\ Resolved'[i].arg = lastOp'.src
          /\ lastOp'.src = eventSource
          /\ sources[lastOp'.src].readyState = CONNECTING
          /\ sources[lastOp'.src].promise = "pending"
          /\ sources'[lastOp'.src].promise = "resolved"
     /\ \A e \in DOMAIN sources' :
          IF e \in DOMAIN sources
            THEN /\ sources'[e].promise # sources[e].promise
                      => Resolved' = <<[call |-> "resolve", arg |-> e]>>
                 /\ sources[e].readyState = CLOSED
                      => /\ sources'[e].readyState = CLOSED
                         /\ sources'[e].promise = sources[e].promise
                 /\ sources'[e].readyState = CONNECTING
                      => sources[e].readyState = CONNECTING
                 /\ sources'[e].readyState = CONNECTING
                      => sources'[e].promise = "pending"
            ELSE /\ sources'[e].promise = "pending"
                 /\ sources'[e].readyState = CONNECTING
                 /\ Constructed' = <<[call |-> "EventSource", arg |-> <<e, sources'[e].url>>]>>
     /\ \A e \in DOMAIN sources :
          (e \notin DOMAIN sources' \/ sources'[e].readyState = CLOSED)
            => \A i \in 1..Len(Resolved') : Resolved'[i].arg # e
     /\ Calls(calls', "reject") = <<>>
    ]_vars

\* A connection whose transport closed before its open event: the promise
\* of the start call that constructed it is pending and stays so.
C19_Witness ==
  /\ lastOp.op = "transportClosed"
  /\ eventSource = lastOp.src
  /\ sources[eventSource].readyState = CLOSED
  /\ sources[eventSource].promise = "pending"
  /\ eventCallback \in Callbacks

\* C20: while a heartbeat or a liveness-poll timer is pending, the handle
\* refers to a connection whose open event was dispatched to the open
\* listener (the promise of its start call is resolved) and for which the
\* timer was armed, so a connection still connecting has no watchdog; and
\* the liveness poll, when it fires, never reads the state of a null handle.
C20_WatchdogsOnlyAfterOpen ==
  /\ Watchdogs # {}
       => /\ eventSource # NoSource
          /\ sources[eventSource].readyState # CONNECTING
          /\ sources[eventSource].promise = "resolved"
          /\ \A t \in Watchdogs : t.src = eventSource
  /\ \A e \in DOMAIN sources :
       sources[e].readyState = CONNECTING => (e = eventSource /\ Watchdogs = {})
  /\ Pending("checker") # {} => ~CheckerThrows(World)
  /\ lastOp.op = "checkerInterval" => lastOp.res = "ok"

\* A connection that opened and has both its watchdogs pending after the
\* liveness poll fired once and found the transport open.
C20_Witness ==
  /\ lastOp.op = "checkerInterval"
  /\ calls = <<>>
  /\ Cardinality(Pending("checker")) = 1
  /\ Cardinality(Pending("ping")) = 1
  /\ sources[eventSource].readyState = OPEN

====
